---- MODULE Spec2Model ----
(***************************************************************************)
(* A model of the ledger-file core of acct (src/acct/ledger.py): the       *)
(* lexer (LedgerLexer), the transaction model and its rendering            *)
(* (LedgerTransaction.to_string) and the store (Ledger).                   *)
(*                                                                         *)
(* Text is modelled as TLA+ strings, a character being a string of length  *)
(* one; a file is the sequence of its lines, each with its line end, as    *)
(* Python's file iterator yields them.  Regular expressions are modelled   *)
(* by the matches Python's backtracking engine finds.                      *)
(***************************************************************************)
EXTENDS Integers, Sequences, FiniteSets, TLC

(***************************************************************************)
(* Characters and the str methods the code uses.                           *)
(***************************************************************************)
\* s[i], the empty string outside s
Char(s, i) == IF i >= 1 /\ i <= Len(s) THEN SubSeq(s, i, i) ELSE ""

Min(S) == CHOOSE x \in S : \A y \in S : x <= y

Max(S) == CHOOSE x \in S : \A y \in S : y <= x

Digits == "0123456789"

LowerLetters == "abcdefghijklmnopqrstuvwxyz"

UpperLetters == "ABCDEFGHIJKLMNOPQRSTUVWXYZ"

CharsOf(s) == {Char(s, i) : i \in 1..Len(s)}

DigitSet == CharsOf(Digits)

LetterSet == CharsOf(LowerLetters) \cup CharsOf(UpperLetters)

\* \s of the re module (the vertical tab has no TLA+ escape and is left out)
IsSpace(c) == c \in {" ", "\t", "\n", "\r", "\f"}

\* \d
IsDigit(c) == c \in DigitSet

\* \w
IsWord(c) == c \in LetterSet \cup DigitSet \cup {"_"}

\* the position of character c in s, 0 when absent
IndexOf(s, c) ==
    LET idx == {i \in 1..Len(s) : Char(s, i) = c}
    IN  IF idx = {} THEN 0 ELSE Min(idx)

\* number of characters at the start of s that satisfy the class cls
RECURSIVE RunFrom(_, _, _)
RunFrom(s, i, cls) ==
    IF i > Len(s) \/ Char(s, i) \notin cls THEN 0
    ELSE 1 + RunFrom(s, i + 1, cls)

SpaceSet == {" ", "\t", "\n", "\r", "\f"}

\* str.lstrip(), str.rstrip(), str.strip()
LStrip(s) == SubSeq(s, RunFrom(s, 1, SpaceSet) + 1, Len(s))

RStrip(s) ==
    LET idx == {i \in 1..Len(s) : ~IsSpace(Char(s, i))}
    IN  IF idx = {} THEN "" ELSE SubSeq(s, 1, Max(idx))

Strip(s) == LStrip(RStrip(s))

\* str.strip(chars)
StripChars(s, chars) ==
    LET idx == {i \in 1..Len(s) : Char(s, i) \notin chars}
    IN  IF idx = {} THEN "" ELSE SubSeq(s, Min(idx), Max(idx))

\* str.find(sub, from): the first index >= from where sub occurs, 0 when none
Find(s, sub, from) ==
    LET idx == {i \in from..(Len(s) - Len(sub) + 1) :
                    SubSeq(s, i, i + Len(sub) - 1) = sub}
    IN  IF idx = {} THEN 0 ELSE Min(idx)

\* str.split(sep), sep not empty
RECURSIVE SplitOn(_, _)
SplitOn(s, sep) ==
    LET i == Find(s, sep, 1)
    IN  IF i = 0 THEN <<s>>
        ELSE <<SubSeq(s, 1, i - 1)>>
                \o SplitOn(SubSeq(s, i + Len(sep), Len(s)), sep)

\* sep.join(parts)
RECURSIVE Join(_, _)
Join(parts, sep) ==
    IF Len(parts) = 0 THEN ""
    ELSE IF Len(parts) = 1 THEN parts[1]
    ELSE parts[1] \o sep \o Join(Tail(parts), sep)

\* str.replace(old, new), old not empty
Replace(s, old, new) == Join(SplitOn(s, old), new)

\* str.split(): the maximal runs of non-whitespace characters
RECURSIVE SplitWs(_)
SplitWs(s) ==
    LET t == LStrip(s)
        n == RunFrom(t, 1, CharsOf(t) \ SpaceSet)
    IN  IF t = "" THEN <<>>
        ELSE <<SubSeq(t, 1, n)>> \o SplitWs(SubSeq(t, n + 1, Len(t)))

\* str.lower()
LowerChar(c) ==
    LET i == IndexOf(UpperLetters, c)
    IN  IF i = 0 THEN c ELSE Char(LowerLetters, i)

RECURSIVE Lower(_)
Lower(s) ==
    IF s = "" THEN "" ELSE LowerChar(Head(s)) \o Lower(Tail(s))

RECURSIVE Repeat(_, _)
Repeat(c, n) == IF n <= 0 THEN "" ELSE c \o Repeat(c, n - 1)

\* format(s, "<n"): s padded on the right, and format(s, ">n")
LJust(s, n) == s \o Repeat(" ", n - Len(s))

RJust(s, n) == Repeat(" ", n - Len(s)) \o s

\* str(n) and int(s) for naturals
RECURSIVE NatStr(_)
NatStr(n) ==
    IF n < 10 THEN Char(Digits, n + 1)
    ELSE NatStr(n \div 10) \o Char(Digits, (n % 10) + 1)

RECURSIVE StrNat(_)
StrNat(s) ==
    IF s = "" THEN 0
    ELSE 10 * StrNat(SubSeq(s, 1, Len(s) - 1))
            + (IndexOf(Digits, Char(s, Len(s))) - 1)

ZeroPad(s, w) == Repeat("0", w - Len(s)) \o s

AllDigits(s) == \A i \in 1..Len(s) : IsDigit(Char(s, i))

(***************************************************************************)
(* Results of calls: a normal return carries val, a raised exception its   *)
(* class name, its message and the value formatted into the message.       *)
(***************************************************************************)
Return(v) == [exc |-> "", msg |-> "", val |-> v]

Raise(e, m, a) == [exc |-> e, msg |-> m, val |-> a]

Raised(r) == r.exc # ""

\* name = v, then the statements F(name) that follow the assignment
Let(v, F(_)) == F(v)

\* name = r, r a call that may raise: the exception leaves the caller too,
\* otherwise the statements F(name) follow
Bind(r, F(_)) == IF Raised(r) THEN r ELSE F(r.val)

(***************************************************************************)
(* decimal.Decimal: sign, coefficient and number of fraction digits (the   *)
(* negated exponent, below zero for a value such as 1E+20).                *)
(* Values compare by numeric value, as Decimal.__eq__ does.                *)
(***************************************************************************)
None == [none |-> TRUE]

Decimal(sign, coef, places) == [sign |-> sign, coef |-> coef, places |-> places]

RECURSIVE Pow10(_)
Pow10(n) == IF n = 0 THEN 1 ELSE 10 * Pow10(n - 1)

DecSigned(d) == IF d.sign = 1 THEN 0 - d.coef ELSE d.coef

DecNeg(d) == Decimal(1 - d.sign, d.coef, d.places)

\* Decimal(str) for the strings post_amount_regex can capture
DecimalOf(s) ==
    LET signed == s # "" /\ Head(s) \in {"-", "+"}
        body   == IF signed THEN Tail(s) ELSE s
        dot    == Find(body, ".", 1)
        int    == IF dot = 0 THEN body ELSE SubSeq(body, 1, dot - 1)
        frac   == IF dot = 0 THEN "" ELSE SubSeq(body, dot + 1, Len(body))
    IN  IF AllDigits(int) /\ AllDigits(frac) /\ int \o frac # ""
        THEN Return(Decimal(IF signed /\ Head(s) = "-" THEN 1 ELSE 0,
                            StrNat(int \o frac), Len(frac)))
        ELSE Raise("InvalidOperation", "ConversionSyntax", s)

\* format(d, "f")
FormatF(d) ==
    IF d.places < 0
    THEN (IF d.sign = 1 THEN "-" ELSE "")
            \o NatStr(d.coef)
            \o (IF d.coef = 0 THEN "" ELSE Repeat("0", 0 - d.places))
    ELSE
    LET ds == ZeroPad(NatStr(d.coef), d.places + 1)
        n  == Len(ds)
    IN  (IF d.sign = 1 THEN "-" ELSE "")
            \o SubSeq(ds, 1, n - d.places)
            \o (IF d.places = 0 THEN "" ELSE "." \o SubSeq(ds, n - d.places + 1, n))

\* the position of the leading digit: Decimal.adjusted() + 1
DecAdjusted(d) == Len(NatStr(d.coef)) - d.places

\* |a| < |b|: by the position of the leading digit, then by the digits
DecMagLess(a, b) ==
    IF b.coef = 0 THEN FALSE
    ELSE IF a.coef = 0 THEN TRUE
    ELSE IF DecAdjusted(a) # DecAdjusted(b) THEN DecAdjusted(a) < DecAdjusted(b)
    ELSE LET m == IF a.places > b.places THEN a.places ELSE b.places
         IN  a.coef * Pow10(m - a.places) < b.coef * Pow10(m - b.places)

DecNegative(d) == d.sign = 1 /\ d.coef # 0

DecLess(a, b) ==
    IF DecNegative(a)
    THEN IF DecNegative(b) THEN DecMagLess(b, a) ELSE TRUE
    ELSE IF DecNegative(b) THEN FALSE ELSE DecMagLess(a, b)

DecEq(a, b) == ~DecLess(a, b) /\ ~DecLess(b, a)

\* equality of two optional amounts (None == None, Decimal by value)
AmountEq(a, b) ==
    IF a = None \/ b = None THEN a = b ELSE DecEq(a, b)

(***************************************************************************)
(* datetime.date as <<year, month, day>>.                                  *)
(***************************************************************************)
IsLeap(y) == (y % 4 = 0 /\ y % 100 # 0) \/ y % 400 = 0

DaysInMonth(y, m) ==
    IF m = 2 THEN (IF IsLeap(y) THEN 29 ELSE 28)
    ELSE IF m \in {4, 6, 9, 11} THEN 30 ELSE 31

\* datetime.date(yr, mo, dy)
MakeDate(y, m, d) ==
    IF y >= 1 /\ m \in 1..12 /\ d >= 1 /\ d <= DaysInMonth(y, m)
    THEN Return(<<y, m, d>>)
    ELSE Raise("ValueError", "date value out of range", <<y, m, d>>)

\* a datestr_to_date that splits on "/" only, without replacing "-" first
datestr_to_date_slashes(datestr) ==
    LET parts == SplitOn(datestr, "/")
    IN  IF Len(parts) # 3
        THEN Raise("ValueError", "not enough values to unpack", datestr)
        ELSE MakeDate(StrNat(parts[1]), StrNat(parts[2]), StrNat(parts[3]))

datestr_to_date(datestr) ==
    LET parts == SplitOn(Replace(datestr, "-", "/"), "/")
    IN  IF Len(parts) # 3
        THEN Raise("ValueError", "not enough values to unpack", datestr)
        ELSE MakeDate(StrNat(parts[1]), StrNat(parts[2]), StrNat(parts[3]))

\* date.strftime("%Y-%m-%d")
StrfDate(date) ==
    ZeroPad(NatStr(date[1]), 4) \o "-" \o ZeroPad(NatStr(date[2]), 2)
        \o "-" \o ZeroPad(NatStr(date[3]), 2)

DateLess(a, b) ==
    \/ a[1] < b[1]
    \/ a[1] = b[1] /\ a[2] < b[2]
    \/ a[1] = b[1] /\ a[2] = b[2] /\ a[3] < b[3]

(***************************************************************************)
(* The token and transaction model (dataclasses of src/acct/ledger.py).    *)
(***************************************************************************)
CLEARED == "*"

PENDING == "!"

UNKNOWN == ""

LedgerStatus == {CLEARED, PENDING, UNKNOWN}

NewLine == [type |-> "NewLine"]

LedgerTagDirective(name) == [type |-> "LedgerTagDirective", name |-> name]

LedgerCommodityOption(name, value) == [name |-> name, value |-> value]

LedgerCommodity(name, options) ==
    [type |-> "LedgerCommodity", name |-> name, options |-> options]

LedgerNote(value, newline) ==
    [value |-> value, newline |-> newline, comment |-> ";"]

LedgerTag(name, value) ==
    [name |-> name, value |-> value, newline |-> TRUE, comment |-> ";"]

LedgerTransactionPost(date, account, amount, notes, tags) ==
    [date |-> date, notes |-> notes, tags |-> tags, account |-> account,
     amount |-> amount, commodity |-> "USD"]

\* the fields of the dataclass LedgerTransaction, with those of LedgerItem
LedgerTransactionFields ==
    {"date", "notes", "tags", "payee", "posts", "raw", "status", "id"}

LedgerTransaction(date, payee, status, notes, tags, posts, raw, id) ==
    [type |-> "LedgerTransaction", date |-> date, notes |-> notes,
     tags |-> tags, payee |-> payee, posts |-> posts, raw |-> raw,
     status |-> status, id |-> id]

(***************************************************************************)
(* Rendering: the to_string methods.                                       *)
(***************************************************************************)
\* "".join(f(x) for x in seq), given the sequence of the f(x)
ConcatAll(strs) == Join(strs, "")

NewLineToString == "\n"

TagDirectiveToString(d) == "tag " \o d.name \o "\n"

CommodityToString(c, indent) ==
    "commodity " \o c.name \o "\n"
        \o ConcatAll([i \in 1..Len(c.options) |->
                Repeat(" ", indent) \o c.options[i].name \o " "
                    \o c.options[i].value \o "\n"])

\* the prefix LedgerNote.to_string and LedgerTag.to_string share
ItemPrefix(item, indent) ==
    IF item.newline
    THEN "\n" \o Repeat(" ", indent) \o item.comment \o " "
    ELSE "  " \o item.comment \o " "

NoteToString(note, indent) == ItemPrefix(note, indent) \o note.value

TagToString(tag, indent) ==
    IF tag.value # ""
    THEN ItemPrefix(tag, indent) \o tag.name \o ": " \o tag.value
    ELSE ItemPrefix(tag, indent) \o ":" \o tag.name \o ":"

NotesToString(notes, indent) ==
    ConcatAll([i \in 1..Len(notes) |-> NoteToString(notes[i], indent)])

TagsToString(tags, indent) ==
    ConcatAll([i \in 1..Len(tags) |-> TagToString(tags[i], indent)])

\* f"{self.amount:>16f} {self.commodity}"
AmountToString(post) == RJust(FormatF(post.amount), 16) \o " " \o post.commodity

PostToString(post, indent, max_account_len) ==
    "\n" \o Repeat(" ", indent) \o LJust(post.account, max_account_len)
        \o "    "
        \o (IF post.amount # None THEN AmountToString(post) ELSE "")
        \o NotesToString(post.notes, indent * 2)
        \o TagsToString(post.tags, indent * 2)

\* the sort key "-x.amount if x.amount is not None else 1e20"
PostKey(p) == IF p.amount = None THEN Decimal(0, 1, 0 - 20) ELSE DecNeg(p.amount)

\* key(p) < key(q)
PostKeyLess(p, q) == DecLess(PostKey(p), PostKey(q))

\* sorted(posts, key=...): stable, ascending by key
RECURSIVE SortedPosts(_)
SortedPosts(posts) ==
    IF Len(posts) = 0 THEN <<>>
    ELSE LET n    == Len(posts)
             init == SortedPosts(SubSeq(posts, 1, n - 1))
             p    == posts[n]
             lt   == {i \in 1..Len(init) : PostKeyLess(p, init[i])}
             k    == IF lt = {} THEN Len(init) + 1 ELSE Min(lt)
         IN  SubSeq(init, 1, k - 1) \o <<p>> \o SubSeq(init, k, Len(init))

MaxAccountLen(posts) ==
    IF Len(posts) = 0 THEN 0
    ELSE Max({Len(posts[i].account) : i \in 1..Len(posts)})

PostsToString(posts, indent) ==
    LET ps == SortedPosts(posts)
    IN  ConcatAll([i \in 1..Len(ps) |->
                        PostToString(ps[i], indent, MaxAccountLen(posts))])

\* LedgerTransaction.to_string
TransactionToString(t, indent) ==
    StrfDate(t.date) \o " " \o t.status \o " " \o t.payee
        \o NotesToString(t.notes, indent)
        \o TagsToString(t.tags, indent)
        \o PostsToString(t.posts, indent)
        \o "\n"

(***************************************************************************)
(* The regular expressions of LedgerLexer, each as the match the re module *)
(* finds (greedy, backtracking, leftmost alternative first).               *)
(***************************************************************************)
\* comments = ";#%|"
CommentChars == {";", "#", "%", "|"}

\* the line without its final newline: where "." stops and "$" matches
Chomp(line) ==
    IF Char(line, Len(line)) = "\n" THEN SubSeq(line, 1, Len(line) - 1)
    ELSE line

\* commodity_regex = ^(commodity\s)|(c\s), re.I, used with match()
commodity_regex(line) ==
    LET l == Lower(line)
    IN  \/ SubSeq(l, 1, Min({9, Len(l)})) = "commodity" /\ IsSpace(Char(l, 10))
        \/ Char(l, 1) = "c" /\ IsSpace(Char(l, 2))

\* tag_directive_regex = ^tag\s, re.I
tag_directive_regex(line) ==
    Lower(SubSeq(line, 1, Min({3, Len(line)}))) = "tag" /\ IsSpace(Char(line, 4))

\* transaction_first_line_regex =
\*   ^(\d{4}[-\/]\d{2}[-\/]\d{2})\s+([*! ])?(.*)$
\* ok, and the groups 1, 2 (None as "") and 3
transaction_first_line_regex(line) ==
    LET body == Chomp(line)
        w    == RunFrom(line, 11, SpaceSet)
        p    == 11 + w
        st   == IF Char(line, p) \in {"*", "!"} THEN Char(line, p) ELSE ""
        q    == p + Len(st)
    IN  [ok |-> /\ \A i \in {1, 2, 3, 4, 6, 7, 9, 10} : IsDigit(Char(line, i))
                /\ Char(line, 5) \in {"-", "/"}
                /\ Char(line, 8) \in {"-", "/"}
                /\ w >= 1,
         g1 |-> SubSeq(line, 1, Min({10, Len(line)})),
         g2 |-> st,
         g3 |-> IF q > Len(body) THEN "" ELSE SubSeq(body, q, Len(body))]

\* item_comment_regex = ^\s+[;#%|]+(.*)$ : ok and group 1
item_comment_regex(line) ==
    LET body == Chomp(line)
        w    == RunFrom(line, 1, SpaceSet)
        c    == RunFrom(line, w + 1, CommentChars)
    IN  [ok |-> w >= 1 /\ c >= 1,
         g1 |-> IF w + c + 1 > Len(body) THEN ""
                ELSE SubSeq(body, w + c + 1, Len(body))]

\* the class [a-zA-Z0-9:& .] of post_acount_regex
AccountChars == LetterSet \cup DigitSet \cup {":", "&", " ", "."}

\* ( {2,}|\t|\n|\r\n) at position i: the length it matches, 0 when it fails
HardSeparatorAt(line, i) ==
    IF Char(line, i) = " " /\ Char(line, i + 1) = " "
    THEN RunFrom(line, i, {" "})
    ELSE IF Char(line, i) \in {"\t", "\n"} THEN 1
    ELSE IF Char(line, i) = "\r" /\ Char(line, i + 1) = "\n" THEN 2
    ELSE 0

\* post_acount_regex = ^\s*([a-zA-Z0-9:& .]+)( {2,}|\t|\n|\r\n)\s*
\* The engine gives \s* its longest run first, then group 1 its longest
\* run, and shortens group 1, then \s*, until the separator matches.
post_acount_regex(line) ==
    LET K     == RunFrom(line, 1, SpaceSet)
        G(k)  == RunFrom(line, k + 1, AccountChars)
        cands == {kg \in (0..K) \X (1..Len(line)) :
                    /\ kg[2] <= G(kg[1])
                    /\ HardSeparatorAt(line, kg[1] + kg[2] + 1) > 0}
        k     == Max({kg[1] : kg \in cands})
        g     == Max({kg[2] : kg \in {c \in cands : c[1] = k}})
        e     == k + g + HardSeparatorAt(line, k + g + 1)
        end   == e + RunFrom(line, e + 1, SpaceSet)
    IN  IF cands = {} THEN [ok |-> FALSE, g0 |-> "", g1 |-> ""]
        ELSE [ok |-> TRUE, g0 |-> SubSeq(line, 1, end),
              g1 |-> SubSeq(line, k + 1, k + g)]

\* post_amount_regex = ^\$?\s*([-+]?[\d+\.,]*) : group 1 (it always matches)
post_amount_regex(s) ==
    LET a == IF Char(s, 1) = "$" THEN 2 ELSE 1
        b == a + RunFrom(s, a, SpaceSet)
        c == IF Char(s, b) \in {"-", "+"} THEN b + 1 ELSE b
        n == RunFrom(s, c, DigitSet \cup {"+", ".", ","})
    IN  SubSeq(s, b, c + n - 1)

\* re.search(r"^.*[;#%|]\s*(.*)$", line): ok and group 1
post_note_regex(line) ==
    LET body == Chomp(line)
        idx  == {i \in 1..Len(body) : Char(body, i) \in CommentChars}
    IN  IF idx = {} THEN [ok |-> FALSE, g1 |-> ""]
        ELSE [ok |-> TRUE,
              g1 |-> LStrip(SubSeq(body, Max(idx) + 1, Len(body)))]

\* re.search(r"([\t\r\n]| {2,})", s): ok and group 0
hard_separator_search(s) ==
    LET idx == {i \in 1..Len(s) :
                    \/ Char(s, i) \in {"\t", "\r", "\n"}
                    \/ Char(s, i) = " " /\ Char(s, i + 1) = " "}
        i   == Min(idx)
    IN  IF idx = {} THEN [ok |-> FALSE, g0 |-> ""]
        ELSE [ok |-> TRUE,
              g0 |-> IF Char(s, i) = " "
                     THEN SubSeq(s, i, i + RunFrom(s, i, {" "}) - 1)
                     ELSE Char(s, i)]

\* re.search(r"[;#%|]\s*(.*)", s): ok and group 1
note_with_comment_char_search(s) ==
    LET idx == {i \in 1..Len(s) : Char(s, i) \in CommentChars}
        rest == LStrip(SubSeq(s, Min(idx) + 1, Len(s)))
        nl   == Find(rest, "\n", 1)
    IN  IF idx = {} THEN [ok |-> FALSE, g1 |-> ""]
        ELSE [ok |-> TRUE,
              g1 |-> IF nl = 0 THEN rest ELSE SubSeq(rest, 1, nl - 1)]

\* tag_with_value_regex = ^\s+\w+:[^:]*$ : whether findall() finds its match
tag_with_value_regex(comment) ==
    LET w == RunFrom(comment, 1, SpaceSet)
        n == RunFrom(comment, w + 1, LetterSet \cup DigitSet \cup {"_"})
    IN  /\ w >= 1
        /\ n >= 1
        /\ Char(comment, w + n + 1) = ":"
        /\ Find(comment, ":", w + n + 2) = 0

\* tag_without_value_regex = :[\w:]+: , findall(): the matches left to right
RECURSIVE tag_without_value_findall(_, _)
tag_without_value_findall(comment, from) ==
    LET starts == {i \in from..Len(comment) :
                    /\ Char(comment, i) = ":"
                    /\ LET n == RunFrom(comment, i + 1,
                                   LetterSet \cup DigitSet \cup {"_", ":"})
                       IN  \E j \in (i + 2)..(i + n) : Char(comment, j) = ":"}
        i      == Min(starts)
        n      == RunFrom(comment, i + 1, LetterSet \cup DigitSet \cup {"_", ":"})
        j      == Max({e \in (i + 2)..(i + n) : Char(comment, e) = ":"})
    IN  IF starts = {} THEN <<>>
        ELSE <<SubSeq(comment, i, j)>>
                \o tag_without_value_findall(comment, j + 1)

(***************************************************************************)
(* LedgerLexer: the parse_* methods and tokenize.                          *)
(***************************************************************************)
FirstLineTransactionGroup(date, status, payee, note) ==
    [date |-> date, status |-> status, payee |-> payee, note |-> note]

\* parse_first_line_of_transaction; note is a sequence of at most one
\* LedgerNote (Python's None is the empty sequence)
parse_first_line_of_transaction(line) ==
    LET Status(g2) == IF g2 = "*" THEN CLEARED
                      ELSE IF g2 = "!" THEN PENDING ELSE UNKNOWN
        Note(m3)   == IF m3.ok THEN <<LedgerNote(m3.g1, FALSE)>> ELSE <<>>
    IN  Let(transaction_first_line_regex(line), LAMBDA m :
        IF ~m.ok
        THEN Raise("TypeError", "'NoneType' object is not subscriptable", line)
        ELSE
        Let(Strip(m.g3), LAMBDA pn :
        Let(hard_separator_search(pn), LAMBDA m2 :
        Let(SplitOn(pn, m2.g0), LAMBDA parts :
        IF m2.ok /\ Len(parts) # 2
        THEN Raise("ValueError", "too many values to unpack (expected 2)", pn)
        ELSE
        Bind(datestr_to_date(m.g1), LAMBDA date :
        Return(FirstLineTransactionGroup(date, Status(m.g2),
                  Strip(IF m2.ok THEN parts[1] ELSE pn),
                  IF m2.ok THEN Note(note_with_comment_char_search(parts[2]))
                  ELSE <<>>)))))))

\* parse_tag_without_values
RECURSIVE parse_tag_without_values(_)
parse_tag_without_values(matches) ==
    IF Len(matches) = 0 THEN <<>>
    ELSE LET names == SplitOn(StripChars(matches[1], {":"}), ":")
         IN  [i \in 1..Len(names) |-> LedgerTag(names[i], "")]
                \o parse_tag_without_values(Tail(matches))

\* parse_tag_with_values
parse_tag_with_values(matches) ==
    LET tag_items == SplitOn(matches[1], ":")
    IN  IF Len(tag_items) # 2
        THEN Raise("Exception", "Tag parsing for tag '{tag_string}' failed", matches[1])
        ELSE Return(LedgerTag(Strip(tag_items[1]), Strip(tag_items[2])))

\* parse_item_comment: the pair notes, tags
parse_item_comment(comment) ==
    IF tag_with_value_regex(comment)
    THEN Bind(parse_tag_with_values(<<comment>>), LAMBDA tag :
         Return([notes |-> <<>>, tags |-> <<tag>>]))
    ELSE Let(tag_without_value_findall(comment, 1), LAMBDA matches :
         IF Len(matches) > 0
         THEN Return([notes |-> <<>>, tags |-> parse_tag_without_values(matches)])
         ELSE Return([notes |-> <<LedgerNote(Strip(comment), TRUE)>>,
                      tags |-> <<>>]))

\* parse_transaction_post
parse_transaction_post(line, date) ==
    Let(post_acount_regex(line), LAMBDA m :
    IF ~m.ok
    THEN Raise("TypeError", "'NoneType' object is not subscriptable", line)
    ELSE
    Let(Strip(Replace(line, m.g0, "")), LAMBDA amount_string :
    Bind(IF Len(amount_string) > 0
         THEN DecimalOf(Replace(post_amount_regex(amount_string), ",", ""))
         ELSE Return(None), LAMBDA amount :
    Let(post_note_regex(line), LAMBDA m_note :
    Return(LedgerTransactionPost(date, RStrip(m.g1), amount,
              IF m_note.ok THEN <<LedgerNote(m_note.g1, FALSE)>> ELSE <<>>,
              <<>>))))))

\* the first loop of parse_transaction: the comment lines before the first
\* posting line; i is the index in group of the next line to read
RECURSIVE TransactionComments(_, _, _, _)
TransactionComments(group, i, notes, tags) ==
    LET Done == Return([next |-> i, notes |-> notes, tags |-> tags])
    IN  IF i > Len(group) THEN Done
        ELSE
        Let(item_comment_regex(group[i]), LAMBDA result :
        IF ~result.ok THEN Done
        ELSE
        Bind(parse_item_comment(result.g1), LAMBDA nt :
        TransactionComments(group, i + 1, notes \o nt.notes, tags \o nt.tags)))

\* the second loop of parse_transaction: post is the posting being built
RECURSIVE TransactionPosts(_, _, _, _, _)
TransactionPosts(group, i, post, posts, date) ==
    IF i > Len(group) THEN Return(Append(posts, post))
    ELSE
    Let(item_comment_regex(group[i]), LAMBDA result :
    IF result.ok
    THEN Bind(parse_item_comment(result.g1), LAMBDA nt :
         TransactionPosts(group, i + 1,
             [post EXCEPT !.notes = @ \o nt.notes, !.tags = @ \o nt.tags],
             posts, date))
    ELSE Bind(parse_transaction_post(group[i], date), LAMBDA next :
         TransactionPosts(group, i + 1, next, Append(posts, post), date)))

\* the notes (name = "notes") or the tags of all the postings, in order
RECURSIVE PostItems(_, _)
PostItems(posts, name) ==
    IF Len(posts) = 0 THEN <<>>
    ELSE Head(posts)[name] \o PostItems(Tail(posts), name)

\* a parse_transaction that attaches the comment lines after a posting to
\* the transaction instead of the posting
parse_transaction_hoisting(group, id) ==
    Bind(parse_first_line_of_transaction(group[1]), LAMBDA res :
    Bind(TransactionComments(group, 2, res.note, <<>>), LAMBDA head :
    Bind(parse_transaction_post(IF head.next > Len(group) THEN ""
                                ELSE group[head.next], res.date), LAMBDA post :
    Bind(TransactionPosts(group, head.next + 1, post, <<>>, res.date),
         LAMBDA posts :
    Let(LedgerTransaction(res.date, res.payee, res.status,
            head.notes \o PostItems(posts, "notes"),
            head.tags \o PostItems(posts, "tags"),
            [k \in 1..Len(posts) |->
                [posts[k] EXCEPT !.notes = <<>>, !.tags = <<>>]],
            ConcatAll(group), id), LAMBDA tx :
    IF Len(tx.posts) <= 1
    THEN Raise("Exception",
               "Less than two post entries for ledger transaction: ", tx)
    ELSE Return(tx))))))

\* parse_transaction; id is the value of str(uuid.uuid4())
parse_transaction(group, id) ==
    Bind(parse_first_line_of_transaction(group[1]), LAMBDA res :
    Bind(TransactionComments(group, 2, res.note, <<>>), LAMBDA head :
    Bind(parse_transaction_post(IF head.next > Len(group) THEN ""
                                ELSE group[head.next], res.date), LAMBDA post :
    Bind(TransactionPosts(group, head.next + 1, post, <<>>, res.date),
         LAMBDA posts :
    Let(LedgerTransaction(res.date, res.payee, res.status, head.notes,
                          head.tags, posts, ConcatAll(group), id), LAMBDA tx :
    IF Len(tx.posts) <= 1
    THEN Raise("Exception",
               "Less than two post entries for ledger transaction: ", tx)
    ELSE Return(tx))))))

\* parse_commodity
parse_commodity(group) ==
    LET opt(kv) == LedgerCommodityOption(kv[1], Join(Tail(kv), " "))
    IN  Let(SplitWs(group[1]), LAMBDA head :
        IF Len(head) < 2
        THEN Raise("IndexError", "list index out of range", group[1])
        ELSE Return(LedgerCommodity(head[2],
                [i \in 1..(Len(group) - 1) |-> opt(SplitWs(group[i + 1]))])))

\* the identifier uuid.uuid4() yields when n identifiers were drawn before:
\* a fresh string
Uuid4(n) == "uuid-" \o NatStr(n + 1)

\* number of transaction blocks among the tokens
RECURSIVE CountTransactions(_)
CountTransactions(tokens) ==
    IF Len(tokens) = 0 THEN 0
    ELSE (IF Head(tokens).type = "LedgerTransaction" THEN 1 ELSE 0)
            + CountTransactions(Tail(tokens))

\* the loop of tokenize over the lines f of the file, pos the index of the
\* next line to read, n the number of identifiers drawn before the call
RECURSIVE TokenizeLoop(_, _, _, _)
TokenizeLoop(f, pos, tokens, n) ==
    IF pos > Len(f) THEN Return(tokens)
    ELSE
    Let(f[pos], LAMBDA line :
    IF commodity_regex(line)
    THEN Let({j \in (pos + 1)..Len(f) : RStrip(f[j]) = ""}, LAMBDA blank :
         IF blank = {} THEN Raise("StopIteration", "", "")
         ELSE
         Let(Min(blank), LAMBDA end :
         Bind(parse_commodity(<<line>> \o
                  [i \in 1..(end - pos - 1) |-> RStrip(f[pos + i])]),
              LAMBDA token :
         TokenizeLoop(f, end + 1, tokens \o <<token, NewLine>>, n))))
    ELSE IF tag_directive_regex(line)
    THEN TokenizeLoop(f, pos + 1,
            Append(tokens, LedgerTagDirective(Strip(SubSeq(line, 4, Len(line))))), n)
    ELSE IF transaction_first_line_regex(line).ok
    THEN Let({j \in (pos + 1)..Len(f) : Strip(f[j]) = ""}, LAMBDA blank :
         Let(IF blank = {} THEN Len(f) + 1 ELSE Min(blank), LAMBDA end :
         Bind(parse_transaction(SubSeq(f, pos, end - 1),
                                Uuid4(n + CountTransactions(tokens))),
              LAMBDA token :
         TokenizeLoop(f, end + 1, tokens \o <<token, NewLine>>, n))))
    ELSE IF RStrip(line) = ""
    THEN TokenizeLoop(f, pos + 1, Append(tokens, NewLine), n)
    ELSE Raise("Exception", "Parsing error: ", line))

\* the line is none of the four kinds tokenize recognises outside a block:
\* the else branch of the loop of tokenize
Unrecognised(line) ==
    /\ ~commodity_regex(line)
    /\ ~tag_directive_regex(line)
    /\ ~transaction_first_line_regex(line).ok
    /\ RStrip(line) # ""

\* a tokenize that skips the unindented lines it does not recognise
tokenize_skipping(f, n) ==
    TokenizeLoop(SelectSeq(f, LAMBDA line :
                     IsSpace(Char(line, 1)) \/ ~Unrecognised(line)),
                 1, <<>>, n)

\* LedgerLexer.tokenize
tokenize(f, n) == TokenizeLoop(f, 1, <<>>, n)

(***************************************************************************)
(* The store, class Ledger.  A stored transaction is an object: objects is *)
(* the heap, a sequence of LedgerTransaction values, and the token stream  *)
(* and the transaction map hold references (indices) into it, as the       *)
(* Python lists and dicts hold references to the same instances.           *)
(***************************************************************************)
VARIABLES
    file,            \* the ledger file: whether it exists, and its lines
    parsed,          \* whether Ledger.parse() has been called
    objects,         \* the LedgerTransaction instances, by reference
    tokens,          \* self.tokens
    transactions,    \* self.transactions: id -> reference
    commodities,     \* self.commodities
    tag_directives,  \* self.tag_directives
    accounts,        \* self.accounts: account -> set of ids
    payees,          \* self.payees: payee -> set of ids
    dates,           \* self.dates: date -> set of ids
    tags,            \* self.tags: tag name -> set of ids
    tagsv,           \* self.tagsv: tag name -> tag value -> set of ids
    uuids,           \* number of identifiers uuid.uuid4() has produced
    nsaves,          \* number of save_transaction calls made by the caller
    ret,             \* the outcome of the last call: op, arg, exc, msg, val
    rt               \* the round trip of one transaction through text

storeVars == <<objects, tokens, transactions, commodities, tag_directives,
               accounts, payees, dates, tags, tagsv>>

vars == <<file, parsed, objects, tokens, transactions, commodities,
          tag_directives, accounts, payees, dates, tags, tagsv, uuids,
          nsaves, ret, rt>>

\* the fields of a Ledger the methods read and write, as one value
Self ==
    [objects |-> objects, tokens |-> tokens, transactions |-> transactions,
     commodities |-> commodities, tag_directives |-> tag_directives,
     accounts |-> accounts, payees |-> payees, dates |-> dates,
     tags |-> tags, tagsv |-> tagsv]

\* Ledger.__init__: empty lists, an empty dict and empty defaultdicts
NewLedger ==
    [objects |-> <<>>, tokens |-> <<>>, transactions |-> <<>>,
     commodities |-> <<>>, tag_directives |-> <<>>, accounts |-> <<>>,
     payees |-> <<>>, dates |-> <<>>, tags |-> <<>>, tagsv |-> <<>>]

\* d[k] = v of a dict
DictSet(d, k, v) == [x \in DOMAIN d \cup {k} |-> IF x = k THEN v ELSE d[x]]

\* d[k] of a defaultdict: the value, and the dict with k inserted when missing
DefaultGet(d, k, default) == IF k \in DOMAIN d THEN d[k] ELSE default

DefaultTouch(d, k, default) == DictSet(d, k, DefaultGet(d, k, default))

\* d[k].add(v) of a defaultdict(set)
DictAdd(d, k, v) == DictSet(d, k, DefaultGet(d, k, {}) \cup {v})

\* the loops "for tag in ...tags" of save_transaction
RECURSIVE IndexTags(_, _, _)
IndexTags(S, tagseq, id) ==
    IF Len(tagseq) = 0 THEN S
    ELSE LET tag == Head(tagseq)
             S1  == IF tag.value # ""
                    THEN [S EXCEPT !.tagsv = DictSet(@, tag.name,
                            DictAdd(DefaultGet(@, tag.name, <<>>), tag.value, id))]
                    ELSE [S EXCEPT !.tags = DictAdd(@, tag.name, id)]
         IN  IndexTags(S1, Tail(tagseq), id)

\* the loop "for post in t.posts" of save_transaction
RECURSIVE IndexPosts(_, _, _)
IndexPosts(S, posts, id) ==
    IF Len(posts) = 0 THEN S
    ELSE LET post == Head(posts)
             S1   == [S EXCEPT !.accounts = DictAdd(@, post.account, id)]
         IN  IndexPosts(IndexTags(S1, post.tags, id), Tail(posts), id)

\* a save_transaction that leaves the date index alone
save_transaction_no_dates(S, ref) ==
    LET t  == S.objects[ref]
        S1 == [S EXCEPT !.transactions = DictSet(@, t.id, ref),
                        !.payees = DictAdd(@, t.payee, t.id)]
    IN  IndexPosts(IndexTags(S1, t.tags, t.id), t.posts, t.id)

\* a save_transaction that skips a transaction whose content is stored already
save_transaction_dedup(S, ref) ==
    LET t  == S.objects[ref]
        content(u) == [u EXCEPT !.id = "", !.raw = ""]
        S1 == [S EXCEPT !.transactions = DictSet(@, t.id, ref),
                        !.payees = DictAdd(@, t.payee, t.id),
                        !.dates = DictAdd(@, t.date, t.id)]
    IN  IF \E id \in DOMAIN S.transactions :
              content(S.objects[S.transactions[id]]) = content(t)
        THEN S
        ELSE IndexPosts(IndexTags(S1, t.tags, t.id), t.posts, t.id)

\* Ledger.save_transaction(t), t the object with reference ref
save_transaction(S, ref) ==
    LET t  == S.objects[ref]
        S1 == [S EXCEPT !.transactions = DictSet(@, t.id, ref),
                        !.payees = DictAdd(@, t.payee, t.id),
                        !.dates = DictAdd(@, t.date, t.id)]
    IN  IndexPosts(IndexTags(S1, t.tags, t.id), t.posts, t.id)

\* the token list with every LedgerTransaction placed in the heap: the
\* references stored for them, the heap having base objects before
RECURSIVE TokenRefs(_, _)
TokenRefs(toks, base) ==
    IF Len(toks) = 0 THEN <<>>
    ELSE IF Head(toks).type = "LedgerTransaction"
    THEN <<[type |-> "LedgerTransaction", ref |-> base + 1]>>
            \o TokenRefs(Tail(toks), base + 1)
    ELSE <<Head(toks)>> \o TokenRefs(Tail(toks), base)

RECURSIVE TokenObjects(_)
TokenObjects(toks) ==
    IF Len(toks) = 0 THEN <<>>
    ELSE IF Head(toks).type = "LedgerTransaction"
    THEN <<Head(toks)>> \o TokenObjects(Tail(toks))
    ELSE TokenObjects(Tail(toks))

\* the loop "for token in self.tokens" of parse
RECURSIVE ParseLoop(_, _)
ParseLoop(S, toks) ==
    IF Len(toks) = 0 THEN S
    ELSE LET token == Head(toks)
             S1 == IF token.type = "LedgerCommodity"
                   THEN [S EXCEPT !.commodities = Append(@, token)]
                   ELSE IF token.type = "LedgerTagDirective"
                   THEN [S EXCEPT !.tag_directives = Append(@, token)]
                   ELSE IF token.type = "LedgerTransaction"
                   THEN save_transaction(S, token.ref)
                   ELSE S
         IN  ParseLoop(S1, Tail(toks))



\* the number of leading lines of a file that tokenize accepts
GoodPrefix(lines, n) ==
    Max({k \in 0..Len(lines) : ~Raised(tokenize(SubSeq(lines, 1, k), n))})

\* a parse that registers what it read before the error: the store holds the
\* tokens of the leading lines that tokenize accepts
parse_partial(S, f, n) ==
    IF ~f.exists
    THEN [out |-> Raise("FileNotFoundError", "", ""), self |-> S, drawn |-> 0]
    ELSE
    Let(tokenize(f.lines, n), LAMBDA r :
    Let(tokenize(SubSeq(f.lines, 1, GoodPrefix(f.lines, n)), n), LAMBDA p :
    Let(TokenRefs(p.val, Len(S.objects)), LAMBDA refs :
    [out   |-> IF Raised(r) THEN r ELSE Return(None),
     self  |-> ParseLoop([S EXCEPT !.objects = @ \o TokenObjects(p.val),
                                   !.tokens = refs], refs),
     drawn |-> CountTransactions(p.val)])))

\* Ledger.parse(): the outcome and the store after it
parse(S, f, n) ==
    IF ~f.exists
    THEN [out |-> Raise("FileNotFoundError", "", ""), self |-> S, drawn |-> 0]
    ELSE
    Let(tokenize(f.lines, n), LAMBDA r :
    IF Raised(r) THEN [out |-> r, self |-> S, drawn |-> 0]
    ELSE
    Let(TokenRefs(r.val, Len(S.objects)), LAMBDA refs :
    [out   |-> Return(None),
     self  |-> ParseLoop([S EXCEPT !.objects = @ \o TokenObjects(r.val),
                                   !.tokens = refs], refs),
     drawn |-> CountTransactions(r.val)]))

\* every order in which a set can be iterated
Orderings(S) ==
    {q \in [1..Cardinality(S) -> S] : \A i, j \in DOMAIN q : i # j => q[i] # q[j]}

\* Ledger.get_transactions_by_date(date_), with ids read in the order order:
\* the list returned and the store (self.dates[date_] inserts a missing key)
get_transactions_by_date(S, date, order) ==
    [out  |-> Return([i \in 1..Len(order) |-> S.objects[S.transactions[order[i]]]]),
     self |-> [S EXCEPT !.dates = DefaultTouch(@, date, {})]]

\* attribute access obj.name on a LedgerTransaction
getattr(obj, name) ==
    IF name \in LedgerTransactionFields THEN Return(obj[name])
    ELSE Raise("AttributeError",
               "'LedgerTransaction' object has no attribute ", name)

\* item.account.split(':', maxsplit=1)[0].lower()
AccountType(account) == Lower(SplitOn(account, ":")[1])

SeqRange(q) == {q[i] : i \in 1..Len(q)}

\* the value of tx.items
Items(tx) == getattr(tx, "items").val

\* "check similar amounts": the members of t_subset with an item whose amount
\* is among amounts
SimilarAmounts(t_subset, amounts) ==
    {tx \in t_subset :
        \E i \in 1..Len(Items(tx)) :
            \E a \in amounts : AmountEq(Items(tx)[i].amount, a)}

\* "check similar account types": the loop adds to similar_transactions a
\* member of it whose first item has a type of t, and breaks after the first
\* item; it removes nothing
SimilarAccountTypes(similar_transactions, account_types) ==
    similar_transactions \cup
        {tx \in similar_transactions :
            Len(Items(tx)) > 0 /\ AccountType(Items(tx)[1].account) \in account_types}

\* Ledger.find_similar_transactions(t)
find_similar_transactions(S, t, order) ==
    LET by_date  == get_transactions_by_date(S, t.date, order)
        t_subset == SeqRange(by_date.out.val)
        t_items  == getattr(t, "items")
        amounts  == {t_items.val[i].amount : i \in 1..Len(t_items.val)}
        similar  == SimilarAmounts(t_subset, amounts)
        account_types ==
            {AccountType(t_items.val[i].account) : i \in 1..Len(t_items.val)}
    IN  [out  |-> IF t_subset = {} THEN Return({})
                  ELSE IF Raised(t_items) THEN t_items
                  ELSE Return(SimilarAccountTypes(similar, account_types)),
         self |-> by_date.self]

\* token.to_string() for a token of self.tokens
TokenToString(S, token) ==
    IF token.type = "NewLine" THEN NewLineToString
    ELSE IF token.type = "LedgerTagDirective" THEN TagDirectiveToString(token)
    ELSE IF token.type = "LedgerCommodity" THEN CommodityToString(token, 4)
    ELSE TransactionToString(S.objects[token.ref], 4)

\* a to_string that emits the tokens grouped by kind
to_string_grouped(S, sorted) ==
    LET kind(k) == SelectSeq(S.tokens, LAMBDA token : token.type = k)
        out     == kind("LedgerCommodity") \o kind("LedgerTagDirective")
                       \o kind("LedgerTransaction") \o kind("NewLine")
    IN  IF ~sorted
        THEN Return(ConcatAll([i \in 1..Len(out) |-> TokenToString(S, out[i])]))
        ELSE Raise("TypeError", "'bool' object is not callable", sorted)

\* Ledger.to_string(sorted): in the sorted branch the name sorted is the
\* parameter, a bool, and line 318 calls it
to_string(S, sorted) ==
    IF ~sorted
    THEN Return(ConcatAll([i \in 1..Len(S.tokens) |-> TokenToString(S, S.tokens[i])]))
    ELSE Raise("TypeError", "'bool' object is not callable", sorted)

(***************************************************************************)
(* Inputs: ledger files, and transactions built by explicit construction.  *)
(***************************************************************************)
MaxSaves == 2

MaxBlocks == 3

D1 == <<2019, 8, 2>>

D2 == <<2019, 8, 3>>

D3 == <<2020, 2, 29>>

QueryDates == {D1, D2, D3}

Ten == Decimal(0, 1000, 2)

MinusTen == Decimal(1, 1000, 2)

\* LedgerTransaction(date=..., payee=..., posts=[...]) as a caller builds it:
\* status UNKNOWN, raw '' and, unless the caller supplies one, id ''
Construct(date, payee, posts, id) ==
    LedgerTransaction(date, payee, UNKNOWN, <<>>, <<>>, posts, "", id)

Post(date, account, amount) ==
    LedgerTransactionPost(date, account, amount, <<>>, <<>>)

FoodPosts(date) ==
    <<Post(date, "Expenses:Food", Ten), Post(date, "Liabilities:Visa", None)>>

TFood == Construct(D1, "Lunch", FoodPosts(D1), "")

TFoodExt == Construct(D1, "Lunch", FoodPosts(D1), "ext-1")

TRent ==
    Construct(D2, "Rent",
        <<Post(D2, "Expenses:Rent", Decimal(0, 50000, 2)),
          [Post(D2, "Assets:Checking", Decimal(1, 50000, 2))
              EXCEPT !.tags = <<LedgerTag("lm", "42"), LedgerTag("home", "")>>]>>,
        "")

\* a transaction constructed with a single posting
TOne == Construct(D3, "Tip", <<Post(D3, "Expenses:Food", Ten)>>, "")

Constructed == {TFood, TFoodExt, TRent, TOne}

\* blocks of lines a ledger file is made of
BlankBlock == <<"\n">>

CommodityBlock == <<"commodity $\n", "    format $1,000.00\n", "\n">>

TagBlock == <<"tag lm\n">>

TravelBlock ==
    <<"2019-08-02 * Train\n",
      "    Expenses:Travel   $ 10.00\n",
      "    Assets:Checking   $ -10.00\n",
      "\n">>

TransferBlock ==
    <<"2019/08/02 Transfer  ; monthly\n",
      "    ; :bank:auto:\n",
      "    Assets:Savings\t$ 10.00\n",
      "        ; lm: 7\n",
      "    Assets:Checking\n",
      "\n">>

PaycheckBlock ==
    <<"2019-08-03 ! Paycheck\n",
      "    ; a note\n",
      "    Assets:Checking   $ 1,234.56  ; net\n",
      "    Income:Salary\n">>

OnePostBlock ==
    <<"2019-08-02 One\n",
      "    ; before\n",
      "    Expenses:Food  $ 10.00\n",
      "    ; after\n",
      "\n">>

ZeroPostBlock == <<"2019-08-02 Zero\n", "    ; only a comment\n", "\n">>

GarbageBlock == <<"garbage\n">>

Blocks ==
    {BlankBlock, CommodityBlock, TagBlock, TravelBlock, PaycheckBlock,
     OnePostBlock, ZeroPostBlock, GarbageBlock}

RECURSIVE Flatten(_)
Flatten(seqs) ==
    IF Len(seqs) = 0 THEN <<>> ELSE Head(seqs) \o Flatten(Tail(seqs))

File(lines) == [exists |-> TRUE, lines |-> lines]

FileMissing == [exists |-> FALSE, lines |-> <<>>]

\* the files of at most MaxBlocks blocks
LexFiles ==
    {File(Flatten(bs)) : bs \in UNION {[1..k -> Blocks] : k \in 0..MaxBlocks}}

\* the files the store is opened on
StoreFiles ==
    {FileMissing,
     File(<<>>),
     File(Flatten(<<CommodityBlock, TagBlock, BlankBlock, TravelBlock,
                    TransferBlock, PaycheckBlock>>)),
     File(Flatten(<<TravelBlock, TravelBlock, PaycheckBlock>>)),
     File(Flatten(<<TravelBlock, OnePostBlock>>))}

(***************************************************************************)
(* The state machine: a Ledger is constructed on a file, parsed once as    *)
(* its callers do (cli.py), then extended, queried and rendered.           *)
(***************************************************************************)
Call(op, arg, out) ==
    [op |-> op, arg |-> arg, exc |-> out.exc, msg |-> out.msg, val |-> out.val]

RtIdle == [stage |-> "idle"]

InitOn(files) ==
    /\ file \in files
    /\ parsed = FALSE
    /\ objects = NewLedger.objects
    /\ tokens = NewLedger.tokens
    /\ transactions = NewLedger.transactions
    /\ commodities = NewLedger.commodities
    /\ tag_directives = NewLedger.tag_directives
    /\ accounts = NewLedger.accounts
    /\ payees = NewLedger.payees
    /\ dates = NewLedger.dates
    /\ tags = NewLedger.tags
    /\ tagsv = NewLedger.tagsv
    /\ uuids = 0
    /\ nsaves = 0
    /\ ret = Call("__init__", None, Return(None))
    /\ rt = RtIdle

Init == InitOn(StoreFiles)

\* the store becomes S
Becomes(S) ==
    /\ objects' = S.objects
    /\ tokens' = S.tokens
    /\ transactions' = S.transactions
    /\ commodities' = S.commodities
    /\ tag_directives' = S.tag_directives
    /\ accounts' = S.accounts
    /\ payees' = S.payees
    /\ dates' = S.dates
    /\ tags' = S.tags
    /\ tagsv' = S.tagsv

Parse ==
    /\ ~parsed
    /\ \E r \in {parse(Self, file, uuids)} :
           /\ Becomes(r.self)
           /\ uuids' = uuids + r.drawn
           /\ ret' = Call("parse", None, r.out)
    /\ parsed' = TRUE
    /\ UNCHANGED <<file, nsaves, rt>>

\* the caller constructs t and calls save_transaction(t)
SaveTransaction(t) ==
    /\ parsed
    /\ nsaves < MaxSaves
    /\ Becomes(save_transaction([Self EXCEPT !.objects = Append(@, t)],
                                Len(objects) + 1))
    /\ nsaves' = nsaves + 1
    /\ ret' = Call("save_transaction", t, Return(None))
    /\ UNCHANGED <<file, parsed, uuids, rt>>

GetTransactionsByDate(d) ==
    /\ parsed
    /\ \E order \in Orderings(DefaultGet(dates, d, {})) :
          \E r \in {get_transactions_by_date(Self, d, order)} :
              /\ Becomes(r.self)
              /\ ret' = Call("get_transactions_by_date", d, r.out)
    /\ UNCHANGED <<file, parsed, uuids, nsaves, rt>>

FindSimilarTransactions(t) ==
    /\ parsed
    /\ \E order \in Orderings(DefaultGet(dates, t.date, {})) :
          \E r \in {find_similar_transactions(Self, t, order)} :
              /\ Becomes(r.self)
              /\ ret' = Call("find_similar_transactions", t, r.out)
    /\ UNCHANGED <<file, parsed, uuids, nsaves, rt>>

LedgerToString(sorted) ==
    /\ parsed
    /\ ret' = Call("to_string", sorted, to_string(Self, sorted))
    /\ UNCHANGED <<file, parsed, storeVars, uuids, nsaves, rt>>

Next ==
    \/ Parse
    \/ \E t \in Constructed : SaveTransaction(t)
    \/ \E d \in QueryDates : GetTransactionsByDate(d)
    \/ \E t \in Constructed : FindSimilarTransactions(t)
    \/ \E sorted \in BOOLEAN : LedgerToString(sorted)

Spec == Init /\ [][Next]_vars

\* the lexer and the renderer on every file of at most MaxBlocks blocks
InitLex == InitOn(LexFiles)

NextLex ==
    \/ Parse
    \/ \E sorted \in BOOLEAN : LedgerToString(sorted)

SpecLex == InitLex /\ [][NextLex]_vars

\* the lexer's errors: the files of at most MaxBlocks blocks that are a
\* commodity, a tag directive, a transaction with two, one or no posting
\* lines, or an unrecognised line
ErrFiles ==
    {File(Flatten(bs)) :
        bs \in UNION {[1..k -> Blocks \ {BlankBlock}] : k \in 0..MaxBlocks}}

InitErr == InitOn(ErrFiles)

SpecErr == InitErr /\ [][NextLex]_vars

(***************************************************************************)
(* The round trip of one transaction through its text: a transaction is    *)
(* built, rendered by to_string, and the text is read back by the lexer.   *)
(***************************************************************************)
\* the lines of a text file as iterating over the file yields them, line
\* ends kept
RECURSIVE SplitLines(_)
SplitLines(text) ==
    IF text = "" THEN <<>>
    ELSE
    Let(Find(text, "\n", 1), LAMBDA i :
    IF i = 0 THEN <<text>>
    ELSE <<SubSeq(text, 1, i)>> \o SplitLines(SubSeq(text, i + 1, Len(text))))

RtAmounts == {Ten, MinusTen, None}

RtItems ==
    {[notes |-> <<>>, tags |-> <<>>],
     [notes |-> <<LedgerNote("a note", TRUE)>>,
      tags  |-> <<LedgerTag("lm", "42"), LedgerTag("home", "")>>]}

\* transactions built by explicit construction
RtConstructed ==
    {LedgerTransaction(D1, "Lunch", st, it.notes, it.tags,
        <<Post(D1, "Expenses:Food", a1), Post(D1, "Liabilities:Visa", a2)>>,
        "", "")
        : st \in LedgerStatus, it \in RtItems, a1 \in RtAmounts, a2 \in RtAmounts}

\* blocks whose transaction is built by parsing
RtBlocks == {TravelBlock, TransferBlock, PaycheckBlock}

RtConstruct(t) ==
    /\ rt.stage = "idle"
    /\ rt' = [stage |-> "built", t |-> t]
    /\ UNCHANGED <<file, parsed, storeVars, uuids, nsaves, ret>>

RtParse(block) ==
    /\ rt.stage = "idle"
    /\ \E r \in {tokenize(block, 0)} :
          /\ ~Raised(r)
          /\ \E t \in SeqRange(TokenObjects(r.val)) :
                rt' = [stage |-> "built", t |-> t]
    /\ UNCHANGED <<file, parsed, storeVars, uuids, nsaves, ret>>

RtRender ==
    /\ rt.stage = "built"
    /\ rt' = [stage |-> "rendered", t |-> rt.t,
              text |-> TransactionToString(rt.t, 4)]
    /\ UNCHANGED <<file, parsed, storeVars, uuids, nsaves, ret>>

RtTokenize ==
    /\ rt.stage = "rendered"
    /\ rt' = [stage |-> "tokenized", t |-> rt.t, text |-> rt.text,
              result |-> tokenize(SplitLines(rt.text), 0)]
    /\ UNCHANGED <<file, parsed, storeVars, uuids, nsaves, ret>>

InitRT == InitOn({FileMissing})

NextRT ==
    \/ \E t \in RtConstructed : RtConstruct(t)
    \/ \E block \in RtBlocks : RtParse(block)
    \/ RtRender
    \/ RtTokenize

SpecRT == InitRT /\ [][NextRT]_vars

(***************************************************************************)
(* Properties.                                                             *)
(***************************************************************************)
TagSet(tagseq) == {<<tagseq[i].name, tagseq[i].value>> : i \in 1..Len(tagseq)}

NoteSet(notes) == {notes[i].value : i \in 1..Len(notes)}

\* every posting of ps has a posting of qs with its account and amount
PostingsWithin(ps, qs) ==
    \A i \in 1..Len(ps) : \E j \in 1..Len(qs) :
        /\ ps[i].account = qs[j].account
        /\ AmountEq(ps[i].amount, qs[j].amount)

EqualTransactions(t, u) ==
    /\ t.date = u.date
    /\ t.payee = u.payee
    /\ t.status = u.status
    /\ TagSet(t.tags) = TagSet(u.tags)
    /\ NoteSet(t.notes) = NoteSet(u.notes)
    /\ PostingsWithin(t.posts, u.posts)
    /\ PostingsWithin(u.posts, t.posts)

\* C1: round trip -- the text of a transaction with at least two posts
\* tokenizes to exactly one transaction, equal to it in date, payee, status,
\* tags, notes and postings (account, amount)
C1_RoundTrip ==
    (rt.stage = "tokenized" /\ Len(rt.t.posts) >= 2)
        => /\ ~Raised(rt.result)
           /\ Len(TokenObjects(rt.result.val)) = 1
           /\ EqualTransactions(rt.t, TokenObjects(rt.result.val)[1])

\* the stored transactions: the values of the transaction map
Stored == {objects[transactions[id]] : id \in DOMAIN transactions}

SharesAmount(t, tx) ==
    \E i \in 1..Len(t.posts) : \E j \in 1..Len(tx.posts) :
        AmountEq(t.posts[i].amount, tx.posts[j].amount)

SharesAccountType(t, tx) ==
    \E i \in 1..Len(t.posts) : \E j \in 1..Len(tx.posts) :
        AccountType(t.posts[i].account) = AccountType(tx.posts[j].account)

Similar(t, tx) ==
    /\ tx.date = t.date
    /\ SharesAmount(t, tx)
    /\ SharesAccountType(t, tx)

C3_SimilarComplete ==
    ret.op = "find_similar_transactions"
        => /\ ret.exc = ""
           /\ \A tx \in Stored : Similar(ret.arg, tx) => tx \in ret.val
           /\ (\A tx \in Stored : tx.date # ret.arg.date) => ret.val = {}

\* the text of the Sorted mode with the transactions in the order q of ids
SortedText(q) ==
    ConcatAll([i \in 1..Len(commodities) |->
                    CommodityToString(commodities[i], 4) \o NewLineToString])
        \o ConcatAll([i \in 1..Len(tag_directives) |->
                    TagDirectiveToString(tag_directives[i]) \o NewLineToString])
        \o ConcatAll([i \in 1..Len(q) |->
                    TransactionToString(objects[transactions[q[i]]], 4)
                        \o NewLineToString])

\* C4: to_string(sorted=True) returns the commodity directives, then the tag
\* directives, then the stored transactions in ascending date order, each
\* followed by a blank line
C4_SortedMode ==
    (ret.op = "to_string" /\ ret.arg)
        => /\ ret.exc = ""
           /\ \E q \in Orderings(DOMAIN transactions) :
                /\ \A i, j \in 1..Len(q) :
                      i < j => ~DateLess(objects[transactions[q[j]]].date,
                                         objects[transactions[q[i]]].date)
                /\ ret.val = SortedText(q)

\* the rendering of a token the lexer produced
LexTokenToString(token) ==
    IF token.type = "NewLine" THEN NewLineToString
    ELSE IF token.type = "LedgerTagDirective" THEN TagDirectiveToString(token)
    ELSE IF token.type = "LedgerCommodity" THEN CommodityToString(token, 4)
    ELSE TransactionToString(token, 4)

BlankLines(lines) == {i \in 1..Len(lines) : Strip(lines[i]) = ""}

\* every commodity and transaction block of the file ends with a blank
\* line: after the last blank line there are tag directives only
BlocksTerminated(lines) ==
    \A i \in 1..Len(lines) :
        (\A j \in BlankLines(lines) : j < i) => tag_directive_regex(lines[i])

\* C5: to_string() of a parsed file is the concatenation of the renderings
\* of the lexer's tokens in the lexer's order, and when every block of the
\* file ends with a blank line the store holds as many blank-line tokens as
\* the file has blank lines
C5_AsParsed ==
    (ret.op = "to_string" /\ ~ret.arg /\ file.exists)
        => \E r \in {tokenize(file.lines, 0)} :
              ~Raised(r) =>
                /\ ret.exc = ""
                /\ ret.val = ConcatAll([i \in 1..Len(r.val) |->
                                            LexTokenToString(r.val[i])])
                /\ [i \in 1..Len(tokens) |-> tokens[i].type]
                        = [i \in 1..Len(r.val) |-> r.val[i].type]
                /\ BlocksTerminated(file.lines) =>
                        Cardinality({i \in 1..Len(tokens) :
                                        tokens[i].type = "NewLine"})
                            = Cardinality(BlankLines(file.lines))

\* a rendered store with a commodity, a tag directive, a transaction and
\* blank lines, every block of the file ending with a blank line
C5_Witness ==
    /\ ret.op = "to_string" /\ ~ret.arg /\ ret.exc = ""
    /\ BlocksTerminated(file.lines)
    /\ \A k \in {"LedgerCommodity", "LedgerTagDirective", "LedgerTransaction",
                 "NewLine"} : \E i \in 1..Len(tokens) : tokens[i].type = k
    /\ ret.val # ""

\* C6: index completeness -- every entry (id, t) of the transaction map has
\* id in the date index under t.date, in the payee index under t.payee and
\* in the account index under the account of every posting of t
C6_IndexComplete ==
    \A id \in DOMAIN transactions :
        \E t \in {objects[transactions[id]]} :
            /\ id \in DefaultGet(dates, t.date, {})
            /\ id \in DefaultGet(payees, t.payee, {})
            /\ \A i \in 1..Len(t.posts) :
                  id \in DefaultGet(accounts, t.posts[i].account, {})

\* a parsed store that was extended by save_transaction
C6_Witness ==
    /\ parsed
    /\ nsaves > 0
    /\ Cardinality(DOMAIN transactions) >= 3
    /\ \E id \in DOMAIN transactions :
          Len(objects[transactions[id]].posts) >= 2

\* a transaction has the tag name with the value value ('' for none), on
\* itself or on a posting
HasTag(t, name, value) ==
    \/ <<name, value>> \in TagSet(t.tags)
    \/ \E i \in 1..Len(t.posts) : <<name, value>> \in TagSet(t.posts[i].tags)

\* C7: index soundness -- every id in a bucket of the date, payee, account
\* or tag indices is a key of the transaction map, and the transaction
\* stored under it has that date, payee, posting account or tag
C7_IndexSound ==
    /\ \A d \in DOMAIN dates : \A id \in dates[d] :
          id \in DOMAIN transactions /\ objects[transactions[id]].date = d
    /\ \A p \in DOMAIN payees : \A id \in payees[p] :
          id \in DOMAIN transactions /\ objects[transactions[id]].payee = p
    /\ \A a \in DOMAIN accounts : \A id \in accounts[a] :
          /\ id \in DOMAIN transactions
          /\ \E i \in 1..Len(objects[transactions[id]].posts) :
                objects[transactions[id]].posts[i].account = a
    /\ \A n \in DOMAIN tags : \A id \in tags[n] :
          id \in DOMAIN transactions /\ HasTag(objects[transactions[id]], n, "")
    /\ \A n \in DOMAIN tagsv : \A v \in DOMAIN tagsv[n] : \A id \in tagsv[n][v] :
          id \in DOMAIN transactions /\ HasTag(objects[transactions[id]], n, v)

\* C8: get_transactions_by_date(d) returns, without raising, exactly the
\* stored transactions whose date is d, each once
C8_ByDateExact ==
    ret.op = "get_transactions_by_date"
        => /\ ret.exc = ""
           /\ \A i \in 1..Len(ret.val) :
                 ret.val[i] \in Stored /\ ret.val[i].date = ret.arg
           /\ \A tx \in Stored :
                 tx.date = ret.arg =>
                    Cardinality({i \in 1..Len(ret.val) : ret.val[i] = tx}) = 1

\* number of transaction blocks of a file: the lines that start one
TransactionBlocks(lines) ==
    Cardinality({i \in 1..Len(lines) : transaction_first_line_regex(lines[i]).ok})

\* the transactions saved so far carry pairwise different identifiers
DistinctIds ==
    \A i, j \in 1..Len(objects) : i # j => objects[i].id # objects[j].id

\* C9: no deduplication -- a successful parse of a file with n transaction
\* blocks leaves n entries in the transaction map, and saving k
\* transactions with pairwise different identifiers leaves k entries
C9_NoDedup ==
    /\ (ret.op = "parse" /\ ret.exc = "")
          => Cardinality(DOMAIN transactions) = TransactionBlocks(file.lines)
    /\ DistinctIds => Cardinality(DOMAIN transactions) = Len(objects)

\* a file with two textually identical blocks was parsed and a transaction
\* with a further identifier was saved
C9_Witness ==
    /\ parsed
    /\ nsaves > 0
    /\ DistinctIds
    /\ \E i, j \in 1..Len(objects) :
          i # j /\ objects[i].raw # "" /\ objects[i].raw = objects[j].raw

\* the index after the block that starts at line i: its first blank line,
\* or the end of the file
BlockEnd(lines, i) ==
    IF \E j \in BlankLines(lines) : j > i
    THEN Min({j \in BlankLines(lines) : j > i})
    ELSE Len(lines) + 1

\* line i starts a transaction block with fewer than two posting lines, and
\* the lines before it are blocks the lexer accepts
ShortBlockAt(lines, i) ==
    /\ transaction_first_line_regex(lines[i]).ok
    /\ i > 1 => /\ Strip(lines[i - 1]) = ""
                /\ ~Raised(tokenize(SubSeq(lines, 1, i - 1), 0))
    /\ Cardinality({j \in (i + 1)..(BlockEnd(lines, i) - 1) :
                        ~item_comment_regex(lines[j]).ok}) < 2

\* C10: tokenizing a file with a transaction block of fewer than two
\* posting lines aborts with the too-few-postings error, which carries the
\* block's raw text, and no token sequence is returned
C10_TooFewPostings ==
    (ret.op = "parse" /\ file.exists)
        => \A i \in 1..Len(file.lines) :
              ShortBlockAt(file.lines, i) =>
                /\ ret.exc = "Exception"
                /\ ret.msg = "Less than two post entries for ledger transaction: "
                /\ ret.val.raw
                      = ConcatAll(SubSeq(file.lines, i, BlockEnd(file.lines, i) - 1))
                /\ tokens = <<>>

\* C11: a parse that raises on a lexical or structural error of the file
\* leaves the store as it was before the call, which is the empty store of
\* the constructor: no token, transaction, commodity, tag directive or index
\* entry of the blocks before the malformed one is kept
C11_FailFast ==
    (ret.op = "parse" /\ ret.exc # "") => Self = NewLedger

\* a parse has raised on a file whose leading lines are valid blocks with a
\* transaction among them
C11_Witness ==
    /\ ret.op = "parse"
    /\ ret.exc # ""
    /\ file.exists
    /\ \E k \in 1..Len(file.lines) :
          \E r \in {tokenize(SubSeq(file.lines, 1, k), 0)} :
              ~Raised(r) /\ CountTransactions(r.val) > 0

\* C12: parse on a store whose ledger file does not exist returns normally,
\* no exception reaches the caller, and it leaves the empty store, on which
\* the later renderings succeed
C12_MissingFile ==
    /\ (ret.op = "parse" /\ ~file.exists)
           => (ret.exc = "" /\ Self = NewLedger)
    /\ (ret.op = "to_string" /\ ~file.exists /\ ret.arg = FALSE)
           => ret.exc = ""

\* line i of the file is outside every commodity and transaction block: it
\* is the first line, or it follows a blank line, which ends a block or is
\* a blank line between blocks, or it follows a tag directive that is
\* outside every block
RECURSIVE OutsideBlocks(_, _)
OutsideBlocks(lines, i) ==
    \/ i = 1
    \/ Strip(lines[i - 1]) = ""
    \/ /\ tag_directive_regex(lines[i - 1])
       /\ ~commodity_regex(lines[i - 1])
       /\ OutsideBlocks(lines, i - 1)

\* line i is an unrecognised line outside every block, and the lines
\* before it are blocks the lexer accepts
UnrecognisedAt(lines, i) ==
    /\ OutsideBlocks(lines, i)
    /\ Unrecognised(lines[i])
    /\ ~Raised(tokenize(SubSeq(lines, 1, i - 1), 0))

\* C13: when a line outside every commodity and transaction block is not a
\* commodity line, a tag directive, a transaction first line or a blank
\* line, tokenize raises the parsing error that carries the line, and no
\* tokens are returned, however many valid blocks precede the line
C13_UnrecognisedLine ==
    (ret.op = "parse" /\ file.exists)
        => \A i \in 1..Len(file.lines) :
              UnrecognisedAt(file.lines, i) =>
                /\ ret.exc = "Exception"
                /\ ret.msg = "Parsing error: "
                /\ ret.val = file.lines[i]
                /\ tokens = <<>>

\* the parsing error has been raised for an unrecognised line that follows
\* valid blocks with a transaction among them
C13_Witness ==
    /\ ret.op = "parse"
    /\ ret.exc = "Exception"
    /\ ret.msg = "Parsing error: "
    /\ file.exists
    /\ \E i \in 2..Len(file.lines) :
          /\ UnrecognisedAt(file.lines, i)
          /\ CountTransactions(tokenize(SubSeq(file.lines, 1, i - 1), 0).val) > 0

(***************************************************************************)
(* The lexer's functions on single lines: a first line, an indented        *)
(* comment line or a posting line is assembled from its parts, and the     *)
(* function is applied once to its text, as parse_transaction applies it.   *)
(***************************************************************************)
\* the date as YYYY-MM-DD or YYYY/MM/DD
DateText(date, datesep) ==
    ZeroPad(NatStr(date[1]), 4) \o datesep \o ZeroPad(NatStr(date[2]), 2)
        \o datesep \o ZeroPad(NatStr(date[3]), 2)

NoteTexts == {"note", "a  b", "50% off ; x", "n: v"}

NoInlineNote == [sep |-> "", cc |-> "", text |-> ""]

\* the inline note of a first line: a hard separator, a comment character
\* and the note text
InlineNotes ==
    {NoInlineNote} \cup [sep : {"  ", "\t"}, cc : CommentChars, text : NoteTexts]

\* status is the status character with the space after it, if any
FirstLines ==
    [date : {D1, D3}, datesep : {"-", "/"}, status : {"* ", "*", "! ", ""},
     payee : {"Train", "Whole Foods", "", "Train  to Paris", "Cafe\tbar"},
     note : InlineNotes]

FirstLineText(x) ==
    DateText(x.date, x.datesep) \o " " \o x.status \o x.payee
        \o x.note.sep \o x.note.cc
        \o (IF x.note.cc = "" THEN "" ELSE " " \o x.note.text) \o "\n"

\* the text after the comment character of a comment line, by form:
\* name: value with a single colon, a list of tags :a:b:, or neither
ValueComments ==
    [form : {"value"}, name : {"lm", "name"}, colon : {": ", ":"},
     value : {"42", "two words", ""}]

ListComments ==
    [form : {"list"}, names : {<<"a">>, <<"a", "b">>, <<"bank", "auto", "x">>}]

OtherComments ==
    [form : {"other"},
     text : {"a note", "time 10:30:45 pm", "see :a:b: inline", "a: b: c",
             "my tag: v", "ratio 1:2", "paid", "50% off"}]

CommentBody(c) ==
    IF c.form = "value" THEN c.name \o c.colon \o c.value
    ELSE IF c.form = "list" THEN ":" \o Join(c.names, ":") \o ":"
    ELSE c.text

\* an indented comment line: the comment character, the space after it, if
\* any, and the comment
CommentLines ==
    [cc : CommentChars, gap : {" ", ""},
     comment : ValueComments \cup ListComments \cup OtherComments]

CommentLineText(x) == "    " \o x.cc \o x.gap \o CommentBody(x.comment) \o "\n"

\* the amount field of a posting line: '$', spaces, sign, digits with
\* thousands separators and a two-digit fraction; coef is the number in
\* hundredths
NoAmount == [dollar |-> "", sign |-> "", digits |-> "", coef |-> 0]

PostAmounts ==
    {[dollar |-> d, sign |-> s, digits |-> n[1], coef |-> n[2]] :
        d \in {"", "$", "$ "}, s \in {"", "-", "+"},
        n \in {<<"388.19", 38819>>, <<"1,234.56", 123456>>, <<"0.05", 5>>}}

PostLines ==
    [account : {"Expenses:Food", "Assets:Bank & Co"},
     sep : {"  ", "     ", "\t"},
     amount : PostAmounts \cup {NoAmount},
     comment : {"", "  ; note", "\t# n"}]

PostLineText(x) ==
    "    " \o x.account
        \o (IF x.amount = NoAmount THEN ""
            ELSE x.sep \o x.amount.dollar \o x.amount.sign \o x.amount.digits)
        \o x.comment \o "\n"

\* parse_transaction reads the first line of a block
FirstLine(x) ==
    /\ ret.op = "__init__"
    /\ ret' = Call("parse_first_line_of_transaction", x,
                   parse_first_line_of_transaction(FirstLineText(x)))
    /\ UNCHANGED <<file, parsed, storeVars, uuids, nsaves, rt>>

\* parse_transaction reads a comment line of a block
ItemComment(x) ==
    /\ ret.op = "__init__"
    /\ ret' = Call("parse_item_comment", x,
                   parse_item_comment(item_comment_regex(CommentLineText(x)).g1))
    /\ UNCHANGED <<file, parsed, storeVars, uuids, nsaves, rt>>

\* parse_transaction reads a posting line of a block
TransactionPost(x) ==
    /\ ret.op = "__init__"
    /\ ret' = Call("parse_transaction_post", x,
                   parse_transaction_post(PostLineText(x), D1))
    /\ UNCHANGED <<file, parsed, storeVars, uuids, nsaves, rt>>

InitLine == InitOn({FileMissing})

NextLine ==
    \/ \E x \in FirstLines : FirstLine(x)
    \/ \E x \in CommentLines : ItemComment(x)
    \/ \E x \in PostLines : TransactionPost(x)

SpecLine == InitLine /\ [][NextLine]_vars

\* the status a first line is written with
WrittenStatus(x) ==
    IF x.status \in {"* ", "*"} THEN CLEARED
    ELSE IF x.status = "! " THEN PENDING
    ELSE UNKNOWN

C15_PayeeNoteSplit ==
    (ret.op = "parse_first_line_of_transaction" /\ ret.arg.note # NoInlineNote)
        => /\ ret.exc = ""
           /\ ret.val.payee = Strip(ret.arg.payee)
           /\ ret.val.note = <<LedgerNote(ret.arg.note.text, FALSE)>>

\* the notes and tags a comment is written as: one tag with its value for
\* name: value, one tag without value per name for :a:b:, and otherwise
\* one note that starts its own line
WrittenComment(c) ==
    IF c.form = "value"
    THEN [notes |-> <<>>, tags |-> <<LedgerTag(c.name, c.value)>>]
    ELSE IF c.form = "list"
    THEN [notes |-> <<>>,
          tags |-> [i \in 1..Len(c.names) |-> LedgerTag(c.names[i], "")]]
    ELSE [notes |-> <<LedgerNote(c.text, TRUE)>>, tags |-> <<>>]

\* C16: an indented comment name: value with a single colon parses as
\* exactly one tag with that name and value and no note, a comment :a:b:
\* as one tag without value per name and no note, and any other comment as
\* exactly one plain note and no tag; a comment of the value-tag form always
\* gets the value-tag result
C16_TagPrecedence ==
    ret.op = "parse_item_comment"
        => /\ ret.exc = ""
           /\ ret.val = WrittenComment(ret.arg.comment)

\* the amount a posting line is written with: the digits in hundredths,
\* negative with the sign "-"
WrittenAmount(a) == Decimal(IF a.sign = "-" THEN 1 ELSE 0, a.coef, 2)

\* C17: for every posting line whose amount field is an optional "$",
\* optional spaces, an optional sign and digits with optional thousands
\* separators and a two-digit fraction, the amount is the exact decimal
\* value, commas removed and sign kept, and the account is the trimmed text
\* before the hard separator
C17_Amount ==
    (ret.op = "parse_transaction_post" /\ ret.arg.amount # NoAmount)
        => /\ ret.exc = ""
           /\ ret.val.amount = WrittenAmount(ret.arg.amount)
           /\ ret.val.account = ret.arg.account

\* C18: for every posting line with nothing after the account, or only a
\* trailing comment, parsing succeeds and the amount of the posting is
\* None, never zero
C18_NoAmount ==
    (ret.op = "parse_transaction_post" /\ ret.arg.amount = NoAmount)
        => /\ ret.exc = ""
           /\ ret.val.amount = None
           /\ ret.val.account = ret.arg.account

\* the store with the captured raw text of every transaction replaced: a
\* store equal in every structured field that differs in raw text only
OtherRaw(S) ==
    [S EXCEPT !.objects = [i \in 1..Len(S.objects) |->
                              [S.objects[i] EXCEPT !.raw = "other text\n"]]]

\* the store after the assignment t.payee = payee to the transaction ref
WithPayee(S, ref, payee) == [S EXCEPT !.objects[ref].payee = payee]

\* C19: serialization does not depend on the captured raw text: in As-parsed
\* mode and in Sorted mode to_string returns a text, and the same text for
\* a store that differs in raw text only; after the payee of a parsed
\* transaction is changed the As-parsed text shows the new payee
C19_RawNotUsed ==
    parsed =>
        /\ \A sorted \in BOOLEAN :
              \E r \in {to_string(Self, sorted)} :
                  /\ r.exc = ""
                  /\ to_string(OtherRaw(Self), sorted) = r
        /\ \A i \in 1..Len(tokens) :
              tokens[i].type = "LedgerTransaction" =>
                  \E r \in {to_string(WithPayee(Self, tokens[i].ref, "New Payee"),
                                      FALSE)} :
                      r.exc = "" /\ Find(r.val, " New Payee", 1) > 0

\* C20: transactions are never removed: every transaction registered by
\* parse or by save_transaction, which are the objects of the store, stays
\* in the transaction map after every later save of other transactions,
\* query and rendering, and get_transactions_by_date returns it for its
\* date
C20_NeverRemoved ==
    \A i \in 1..Len(objects) :
        /\ objects[i] \in Stored
        /\ (ret.op = "get_transactions_by_date" /\ ret.arg = objects[i].date)
               => objects[i] \in SeqRange(ret.val)

\* C21: every transaction has its identifier from its construction and the
\* identifiers are unique: any two distinct transaction objects, parsed or
\* constructed without an identifier, structurally identical or not, carry
\* different identifiers
C21_UniqueIds ==
    \A i \in 1..Len(objects) :
        /\ objects[i].id # ""
        /\ \A j \in 1..Len(objects) : i # j => objects[i].id # objects[j].id

\* C22: in every reachable state each transaction of the transaction map
\* has at least two posts: a transaction with fewer posts is rejected with
\* an error when it is constructed or saved, not only when it is parsed
C22_TwoPosts ==
    /\ \A tx \in Stored : Len(tx.posts) >= 2
    /\ (ret.op = "save_transaction" /\ Len(ret.arg.posts) < 2) => ret.exc # ""

\* C23: for every first line whose remainder after date and status has no
\* hard separator followed by a comment character, also when it has a run
\* of two or more spaces or a tab followed by ordinary text, the payee is
\* the entire trimmed remainder and there is no inline note
C23_WholeRemainder ==
    (ret.op = "parse_first_line_of_transaction" /\ ret.arg.note = NoInlineNote)
        => /\ ret.exc = ""
           /\ ret.val.payee = Strip(ret.arg.payee)
           /\ ret.val.note = <<>>

(***************************************************************************)
(* The lexer on one transaction block: a first line, comment lines, and    *)
(* posting lines each followed by comment lines.                           *)
(***************************************************************************)
\* an indented comment line with the notes and tags it is written as
NoteComment ==
    [text |-> "    ; note one\n",
     notes |-> <<LedgerNote("note one", TRUE)>>, tags |-> <<>>]

TagsComment ==
    [text |-> "    ; :a:b:\n",
     notes |-> <<>>, tags |-> <<LedgerTag("a", ""), LedgerTag("b", "")>>]

ValueComment ==
    [text |-> "        ; lm: 7\n",
     notes |-> <<>>, tags |-> <<LedgerTag("lm", "7")>>]

\* the runs of comment lines between two other lines of a block
CommentRuns ==
    {<<>>, <<NoteComment>>, <<TagsComment, ValueComment>>,
     <<ValueComment, NoteComment>>}

\* the posting lines of a block, in order, with the account and the inline
\* note they are written with
PostingLines ==
    <<[text |-> "    Expenses:Food   $ 10.00\n", account |-> "Expenses:Food",
       notes |-> <<>>],
      [text |-> "    Assets:Checking   $ -4.00  ; net\n",
       account |-> "Assets:Checking", notes |-> <<LedgerNote("net", FALSE)>>],
      [text |-> "    Assets:Cash\n", account |-> "Assets:Cash",
       notes |-> <<>>]>>

\* a block: the run of comment lines before the first posting line and the
\* run after each of its two or three posting lines
CommentBlocks ==
    {[head |-> h, after |-> a] :
        h \in CommentRuns,
        a \in {<<p, q>> : p \in CommentRuns, q \in CommentRuns}
                \cup {<<p, q, r>> : p \in CommentRuns, q \in CommentRuns,
                                     r \in CommentRuns}}

RECURSIVE RunField(_, _)
RunField(run, name) ==
    IF Len(run) = 0 THEN <<>>
    ELSE Head(run)[name] \o RunField(Tail(run), name)

RunText(run) == [i \in 1..Len(run) |-> run[i].text]

\* the lines of the block, the group that tokenize hands to parse_transaction
BlockGroup(x) ==
    <<"2019-08-02 * Train  ; trip\n">> \o RunText(x.head)
        \o Flatten([k \in 1..Len(x.after) |->
                       <<PostingLines[k].text>> \o RunText(x.after[k])])

\* tokenize reads a transaction block
ParseTransaction(x) ==
    /\ ret.op = "__init__"
    /\ \E group \in {BlockGroup(x)} :
           ret' = Call("parse_transaction", x,
                       parse_transaction(group, Uuid4(uuids)))
    /\ UNCHANGED <<file, parsed, storeVars, uuids, nsaves, rt>>

InitBlock == InitOn({FileMissing})

NextBlock == \E x \in CommentBlocks : ParseTransaction(x)

SpecBlock == InitBlock /\ [][NextBlock]_vars

\* C24: the notes and tags of every comment line before the first posting
\* line are attached to the transaction, and those of every comment line
\* after a posting line are attached to the nearest preceding posting, not
\* to the transaction or to another posting, in the order of the lines
C24_CommentAttachment ==
    ret.op = "parse_transaction"
        => /\ ret.exc = ""
           /\ ret.val.notes
                = <<LedgerNote("trip", FALSE)>> \o RunField(ret.arg.head, "notes")
           /\ ret.val.tags = RunField(ret.arg.head, "tags")
           /\ Len(ret.val.posts) = Len(ret.arg.after)
           /\ \A k \in 1..Len(ret.arg.after) :
                 /\ ret.val.posts[k].account = PostingLines[k].account
                 /\ ret.val.posts[k].notes
                      = PostingLines[k].notes \o RunField(ret.arg.after[k], "notes")
                 /\ ret.val.posts[k].tags = RunField(ret.arg.after[k], "tags")

\* a block with comment lines before the first posting line and different
\* comment lines after each of its three posting lines has been parsed
C24_Witness ==
    /\ ret.op = "parse_transaction"
    /\ ret.exc = ""
    /\ ret.arg.head = <<TagsComment, ValueComment>>
    /\ ret.arg.after = <<<<ValueComment, NoteComment>>, <<NoteComment>>, <<>>>>
    /\ ret.val.tags
          = <<LedgerTag("a", ""), LedgerTag("b", ""), LedgerTag("lm", "7")>>
    /\ ret.val.posts[1].tags = <<LedgerTag("lm", "7")>>
    /\ ret.val.posts[2].notes
          = <<LedgerNote("net", FALSE), LedgerNote("note one", TRUE)>>
    /\ ret.val.posts[3].notes = <<>>

(***************************************************************************)
(* Rendering of explicitly constructed transactions: one call of           *)
(* LedgerTransaction.to_string per behaviour.                              *)
(***************************************************************************)
Fifty == Decimal(0, 5000, 2)

\* Decimal("-2E+20")
MinusHuge == Decimal(1, 2, 0 - 20)

RenderAmounts == {Ten, MinusTen, Fifty, MinusHuge, None}

RenderPosts ==
    {<<Post(D1, "Expenses:Food", a), Post(D1, "Liabilities:Visa", b)>> :
        a \in RenderAmounts, b \in RenderAmounts}
    \cup
    {<<Post(D1, "Expenses:Food", a), Post(D1, "Liabilities:Visa", b),
       Post(D1, "Assets:Bank:Checking", c)>> :
        a \in RenderAmounts, b \in RenderAmounts, c \in RenderAmounts}

TransactionToStringCall(t) ==
    /\ ret.op = "__init__"
    /\ ret' = Call("to_string", t, Return(TransactionToString(t, 4)))
    /\ UNCHANGED <<file, parsed, storeVars, uuids, nsaves, rt>>

InitRender == InitOn({FileMissing})

NextRender == \E posts \in RenderPosts : TransactionToStringCall(Construct(D1, "Lunch", posts, ""))

SpecRender == InitRender /\ [][NextRender]_vars

\* the lines of a rendered transaction after its first line
RenderedPostLines(text) ==
    Let(SplitOn(text, "\n"), LAMBDA ls : SubSeq(ls, 2, Len(ls) - 1))

\* the posting a rendered line shows, found by its account name
LinePost(line, posts, w) ==
    CHOOSE p \in SeqRange(posts) : p.account = RStrip(SubSeq(line, 5, 4 + w))

LineIsPadded(line, posts, w) ==
    /\ Len(line) >= w + 8
    /\ SubSeq(line, 1, 4) = "    "
    /\ SubSeq(line, 5 + w, 8 + w) = "    "
    /\ \E p \in SeqRange(posts) : SubSeq(line, 5, 4 + w) = LJust(p.account, w)

LineHasAmount(line, w) == Strip(SubSeq(line, 9 + w, Len(line))) # ""

PostLinesInOrder(ls, posts, w) ==
    /\ Len(ls) = Len(posts)
    /\ \A i \in 1..Len(ls) : LineIsPadded(ls[i], posts, w)
    /\ \A i \in 1..Len(ls) :
          LineHasAmount(ls[i], w) <=> LinePost(ls[i], posts, w).amount # None
    /\ \A i, j \in 1..Len(ls) :
          (i < j /\ LineHasAmount(ls[j], w)) =>
              /\ LineHasAmount(ls[i], w)
              /\ ~DecLess(LinePost(ls[i], posts, w).amount,
                          LinePost(ls[j], posts, w).amount)

\* C25: in the text of LedgerTransaction.to_string the postings with an
\* amount come before the postings without one, in non-increasing order of
\* amount, and every account name is padded to the longest account name of
\* the transaction's postings
C25_PostingOrder ==
    ret.op = "to_string" =>
        PostLinesInOrder(RenderedPostLines(ret.val), ret.arg.posts,
                         Max({Len(ret.arg.posts[i].account)
                                 : i \in 1..Len(ret.arg.posts)}))

\* the tags of a transaction and of its posts
TagsOf(t) ==
    SeqRange(t.tags) \cup UNION {SeqRange(t.posts[i].tags) : i \in 1..Len(t.posts)}

\* C26: after save_transaction(t) the id of t is in the tag-name index under
\* the name of every tag of t and of its posts, with or without a value, and
\* for a tag with a value also in the (name, value) index
C26_TagsIndexed ==
    ret.op = "save_transaction" =>
        \A tag \in TagsOf(ret.arg) :
            /\ ret.arg.id \in DefaultGet(tags, tag.name, {})
            /\ tag.value # "" =>
                   ret.arg.id \in DefaultGet(DefaultGet(tagsv, tag.name, <<>>),
                                             tag.value, {})

\* C27: a step of get_transactions_by_date or find_similar_transactions
\* leaves the transaction map, the tokens and the five indices unchanged,
\* the keys of the date index included
C27_QueriesReadOnly ==
    [][ret'.op \in {"get_transactions_by_date", "find_similar_transactions"}
           => /\ UNCHANGED <<transactions, tokens>>
              /\ UNCHANGED <<accounts, payees, tags, tagsv>>
              /\ DOMAIN dates' = DOMAIN dates
              /\ dates' = dates]_vars

\* C28: after any sequence of parse and save_transaction calls the
\* As-parsed text of to_string contains the rendering of every transaction
\* of the transaction map, also of one saved after parsing
C28_AsParsedShowsAll ==
    parsed =>
        \E r \in {to_string(Self, FALSE)} :
            /\ r.exc = ""
            /\ \A tx \in Stored : Find(r.val, TransactionToString(tx, 4), 1) > 0

(***************************************************************************)
(* Files of well-formed blocks whose last block ends with a blank line or  *)
(* with the end of the file.                                               *)
(***************************************************************************)
WellFormedBlocks == {CommodityBlock, TagBlock, TravelBlock, TransferBlock}

\* the same lines without the blank line that closes the last block
EndingAtEof(lines) ==
    IF Len(lines) > 0 /\ lines[Len(lines)] = "\n"
    THEN SubSeq(lines, 1, Len(lines) - 1)
    ELSE lines

EofFiles ==
    {File(ls) : ls \in
        UNION {{Flatten(bs), EndingAtEof(Flatten(bs))} :
                  bs \in UNION {[1..k -> WellFormedBlocks] : k \in 0..MaxBlocks}}}

InitEof == InitOn(EofFiles)

SpecEof == InitEof /\ [][NextLex]_vars

\* the lines at which a block starts: the lines that are not indented
BlockStarts(lines) ==
    {i \in 1..Len(lines) : lines[i] # "\n" /\ Head(lines[i]) # " "}

\* C29: on every file of well-formed blocks, the last block ended by a blank
\* line or by the end of the file, a commodity directive or a transaction,
\* tokenize returns the token list, with one token for every block
C29_TokenizeReturns ==
    ret.op = "parse" =>
        /\ ret.exc = ""
        /\ Cardinality({i \in 1..Len(tokens) : tokens[i].type # "NewLine"})
               = Cardinality(BlockStarts(file.lines))

(***************************************************************************)
(* BankOfAmerica.search_ledger_transactions (boa.py), run against the      *)
(* store as boa2ledger does (cli.py) between the saves.                    *)
(***************************************************************************)
BOATransaction(date, description, amount) ==
    [date |-> date, description |-> description, amount |-> amount]

\* the loop "while (len(transactions_on_date) > 0) and (not
\* matched_transaction)"; transactions_on_date is the set stored in
\* ledger.dates, order the order in which set.pop hands out its elements.
\* A Decimal and a BOATransaction never compare equal, so no item matches.
RECURSIVE SearchLoop(_, _, _, _)
SearchLoop(S, boa_transaction, boa_account, order) ==
    IF Len(order) = 0 THEN [out |-> Return(None), self |-> S]
    ELSE
    Let([S EXCEPT !.dates[boa_transaction.date] = @ \ {Head(order)}], LAMBDA S1 :
    IF Head(order) \notin DOMAIN S1.transactions
    THEN [out |-> Raise("KeyError", "", Head(order)), self |-> S1]
    ELSE
    Let(S1.objects[S1.transactions[Head(order)]], LAMBDA ledger_t :
    IF ~\E i \in 1..Len(ledger_t.tags) :
            /\ ledger_t.tags[i].name = "boa"
            /\ ledger_t.tags[i].value = boa_transaction.description
    THEN SearchLoop(S1, boa_transaction, boa_account, Tail(order))
    ELSE
    Let(getattr(ledger_t, "items"), LAMBDA items :
    IF Raised(items) THEN [out |-> items, self |-> S1]
    ELSE SearchLoop(S1, boa_transaction, boa_account, Tail(order)))))

\* BankOfAmerica.search_ledger_transactions(ledger, boa_transaction,
\* boa_account)
search_ledger_transactions(S, boa_transaction, boa_account, order) ==
    IF DefaultGet(S.dates, boa_transaction.date, {}) = {}
    THEN [out |-> Return(None), self |-> S]
    ELSE SearchLoop(S, boa_transaction, boa_account, order)

TBoa ==
    [Construct(D1, "Train Co", FoodPosts(D1), "boa-1")
        EXCEPT !.tags = <<LedgerTag("boa", "TRAIN CO 0802")>>]

BoaConstructed == {TFoodExt, TBoa}

BoaTransactions ==
    {BOATransaction(d, "TRAIN CO 0802", MinusTen) : d \in {D1, D2}}

BoaFiles ==
    {File(<<>>), File(Flatten(<<TravelBlock, TravelBlock, PaycheckBlock>>))}

SearchLedgerTransactions(boa_transaction) ==
    /\ parsed
    /\ \E order \in Orderings(DefaultGet(dates, boa_transaction.date, {})) :
          \E r \in {search_ledger_transactions(Self, boa_transaction,
                                               "Assets:Checking", order)} :
              /\ Becomes(r.self)
              /\ ret' = Call("search_ledger_transactions", boa_transaction, r.out)
    /\ UNCHANGED <<file, parsed, uuids, nsaves, rt>>

InitBoa == InitOn(BoaFiles)

NextBoa ==
    \/ Parse
    \/ \E t \in BoaConstructed : SaveTransaction(t)
    \/ \E boa_transaction \in BoaTransactions :
          SearchLedgerTransactions(boa_transaction)
    \/ \E d \in QueryDates : GetTransactionsByDate(d)

SpecBoa == InitBoa /\ [][NextBoa]_vars

\* C30: a step of search_ledger_transactions leaves the date index and the
\* transaction map unchanged, and get_transactions_by_date(d) returns
\* every transaction of the map whose date is d, also after searches
C30_SearchIsPure ==
    [][/\ ret'.op = "search_ledger_transactions"
              => UNCHANGED <<dates, transactions>>
       /\ ret'.op = "get_transactions_by_date"
              => \A tx \in Stored : tx.date = ret'.arg => tx \in SeqRange(ret'.val)
      ]_vars
====
